---------------------------- MODULE Spec2Model ----------------------------
(***************************************************************************)
(* Evidence Log (src/App.jsx): the in-memory Database held by the App      *)
(* component, the localStorage slot it is saved to, the UI state that      *)
(* decides which repository operation an event reaches, and the JSON       *)
(* import that completes asynchronously.                                   *)
(*                                                                         *)
(* JavaScript objects are records whose DOMAIN is the set of keys present, *)
(* arrays are sequences, null is Null for identifiers.  JSON text is a     *)
(* tree of tagged nodes (JObj, JArr, JNum, JStr, JNull) or Garbage, the    *)
(* text JSON.parse rejects.  Where the program looks inside a text (the    *)
(* search box, the CSV export) the text is a sequence of characters.       *)
(***************************************************************************)
EXTENDS Integers, Sequences, FiniteSets, TLC

VARIABLES
    db,                     \* useState(loadDB()): the in-memory Database
    slot,                   \* localStorage[STORAGE_KEY]
    selected,               \* selected investigation id, or Null
    activeEvidence,         \* focused evidence id, or Null
    showInvestigationModal, \* investigation modal open
    editingInvestigation,   \* id of the investigation being edited, or Null
    showEvidenceModal,      \* evidence modal open
    editingEvidence,        \* id of the evidence being edited, or Null
    reading,                \* file contents FileReader is still reading
    reads,                  \* the number of file reads importJSON has started
    lastAlert,              \* the text of the last alert()
    clock,                  \* the last value Date.now() returned
    nextId,                 \* the number of identifiers uuid() has produced
    query,                  \* the text of the search box
    statusFilter,           \* the status chosen in the filter, or "All"
    csv                     \* the text of the last file exportCSV has offered

vars == <<db, slot, selected, activeEvidence, showInvestigationModal,
          editingInvestigation, showEvidenceModal, editingEvidence,
          reading, reads, lastAlert, clock, nextId, query, statusFilter, csv>>

ui == <<selected, activeEvidence, showInvestigationModal,
        editingInvestigation, showEvidenceModal, editingEvidence>>

\* the list filters and the exported file: no repository operation touches them
views == <<query, statusFilter, csv>>

---------------------------------------------------------------------------
(* Bounds *)

MaxId == 3          \* uuid() is called at most MaxId times
MaxTime == 2        \* Date.now() returns 1 when the page is opened, and at most MaxTime
MaxReads == 1       \* importJSON is called at most MaxReads times
MaxStored == 2      \* a stored or exported Database has at most MaxStored records of a kind
MaxListed == 3      \* the investigation list is computed from at most MaxListed records

Null == 0           \* null (no selection, no focus, nothing being edited)

---------------------------------------------------------------------------
(* Sequence helpers: Array.prototype.map / filter / find *)

Map(s, F(_)) == [i \in DOMAIN s |-> F(s[i])]

Filter(s, P(_)) == SelectSeq(s, P)

Exists(s, P(_)) == \E i \in DOMAIN s : P(s[i])

Range(s) == {s[i] : i \in DOMAIN s}

Has(obj, key) == key \in DOMAIN obj

\* { ...base, ...over }: the keys of both, over's value where both have the key
Spread(base, over) == over @@ base

Min(a, b) == IF a <= b THEN a ELSE b

---------------------------------------------------------------------------
(* JSON text *)

Garbage == [k |-> "bad"]
JNull == [k |-> "null"]
JNum(n) == [k |-> "num", n |-> n]
JStr(s) == [k |-> "str", s |-> s]
JArr(items) == [k |-> "arr", items |-> items]
JObj(members) == [k |-> "obj", members |-> members]

Keys(j) == {j.members[i][1] : i \in DOMAIN j.members}

\* the value of the last member named key (JSON.parse keeps the last duplicate)
Member(j, key) ==
    j.members[CHOOSE i \in DOMAIN j.members :
                  /\ j.members[i][1] = key
                  /\ \A m \in (i + 1)..Len(j.members) : j.members[m][1] # key][2]

NumKeys == {"id", "investigationId", "createdAt", "updatedAt", "timestamp", "version"}
StrKeys == {"title", "caseNumber", "description", "status", "type", "summary",
            "author", "body", "label", "url"}

KeyOrder == <<"version", "id", "investigationId", "createdAt", "updatedAt", "timestamp",
              "title", "caseNumber", "description", "status", "type", "summary",
              "author", "body", "tags", "attachments", "entries",
              "label", "url", "investigations", "evidence">>

PresentKeys(obj) == Filter(KeyOrder, LAMBDA key : Has(obj, key))

\* JSON.stringify of a leaf object: an attachment {label, url}
StringifyFlat(obj) ==
    JObj(Map(PresentKeys(obj), LAMBDA key : <<key, JStr(obj[key])>>))

StringifyValue(obj, key, Nested(_)) ==
    IF key \in NumKeys THEN JNum(obj[key])
    ELSE IF key \in StrKeys THEN JStr(obj[key])
    ELSE IF key = "tags" THEN JArr(Map(obj[key], JStr))
    ELSE JArr(Map(obj[key], Nested))

StringifyEntry(en) ==
    JObj(Map(PresentKeys(en), LAMBDA key : <<key, StringifyValue(en, key, StringifyFlat)>>))

StringifyRecord(r) ==
    JObj(Map(PresentKeys(r), LAMBDA key : <<key, StringifyValue(r, key, StringifyEntry)>>))

\* JSON.stringify(db)
Stringify(d) ==
    JObj(Map(PresentKeys(d), LAMBDA key : <<key, StringifyValue(d, key, StringifyRecord)>>))

ParseFlat(j) == [key \in Keys(j) |-> Member(j, key).s]

ParseValue(j, key, Nested(_)) ==
    IF key \in NumKeys THEN Member(j, key).n
    ELSE IF key \in StrKeys THEN Member(j, key).s
    ELSE IF key = "tags" THEN Map(Member(j, key).items, LAMBDA t : t.s)
    ELSE Map(Member(j, key).items, Nested)

ParseEntry(j) == [key \in Keys(j) |-> ParseValue(j, key, ParseFlat)]

ParseRecord(j) == [key \in Keys(j) |-> ParseValue(j, key, ParseEntry)]

\* the object JSON.parse builds from a document whose top level passed the checks
ParseDb(j) == [key \in Keys(j) |-> ParseValue(j, key, ParseRecord)]

---------------------------------------------------------------------------
(* Persistence *)

EmptyDB == [investigations |-> <<>>, evidence |-> <<>>, version |-> 1]

Absent == [k |-> "absent"]      \* localStorage.getItem returns null
EmptyText == [k |-> "empty"]    \* the slot holds ""

\* a value JSON.parse returns that has no investigations and evidence arrays
\* (null, a number, a string, an array, an object without them), kept as read
NotDatabase(j) == [k |-> "value", node |-> j]

IsArrayMember(j, key) ==
    /\ j.k = "obj"
    /\ key \in Keys(j)
    /\ Member(j, key).k = "arr"

\* JSON.parse(raw) of text that parses
JSONparse(j) ==
    IF IsArrayMember(j, "investigations") /\ IsArrayMember(j, "evidence")
    THEN ParseDb(j)
    ELSE NotDatabase(j)

\* loadDB(): !raw, or JSON.parse throws, gives the empty Database; whatever
\* else parses is returned as it is
loadDB(raw) ==
    IF raw \in {Absent, EmptyText} THEN EmptyDB
    ELSE IF raw = Garbage THEN EmptyDB
    ELSE JSONparse(raw)

\* a value with investigations and evidence arrays
IsDatabase(v) == Has(v, "investigations") /\ Has(v, "evidence")

\* useEffect(() => saveDB(db), []): the effect keeps saving the first render's db
saveDB_firstRender(d) == Stringify(EmptyDB)

\* saveDB(db): the new content of the slot
saveDB(d) == Stringify(d)

InitialSlots == {Absent, EmptyText, Garbage, Stringify(EmptyDB)}

---------------------------------------------------------------------------
(* What the forms submit and what the user can pick as a file *)

\* InvestigationForm's payload: title, caseNumber, description, status, tags
InvestigationPayloads ==
    { [title |-> "Robbery", caseNumber |-> "", description |-> "",
       status |-> "Open", tags |-> <<>>],
      [title |-> "Robbery", caseNumber |-> "24-017", description |-> "narco ring",
       status |-> "Closed", tags |-> <<"narcotics">>] }

\* EvidenceForm's payload: title, type, summary, tags
EvidencePayloads ==
    { [title |-> "CCTV", type |-> "Digital", summary |-> "lobby", tags |-> <<"CCTV">>] }

\* EntryForm's payload: author, body, attachments
EntryPayloads ==
    { [author |-> "Deputy", body |-> "hello, world",
       attachments |-> <<[label |-> "https://x/1", url |-> "https://x/1"]>>] }

\* a hand-written document: no version, an investigation without updatedAt and tags
BackupDoc ==
    JObj(<< <<"investigations",
              JArr(<< JObj(<< <<"id", JNum(101)>>, <<"title", JStr("Imported")>>,
                              <<"status", JStr("Closed")>>, <<"createdAt", JNum(1)>> >>) >>)>>,
            <<"evidence", JArr(<<>>)>> >>)

NotAnArrayDoc ==
    JObj(<< <<"investigations", JStr("not-an-array")>>, <<"evidence", JArr(<<>>)>> >>)

InvalidFiles == {Garbage, JNull, JArr(<<>>), NotAnArrayDoc}

ValidFiles == {BackupDoc}

Files == InvalidFiles \cup ValidFiles

---------------------------------------------------------------------------
(* Derived values of a render (lines 315-320) *)

investigations == db.investigations

evidence == db.evidence

HasSelectedInvestigation == Exists(investigations, LAMBDA i : i.id = selected)

evidenceForSelected == Filter(evidence, LAMBDA e : e.investigationId = selected)

HasActiveEvidenceObj == Exists(evidence, LAMBDA e : e.id = activeEvidence)

\* a Modal covers the page while it is open
NoModal == ~showInvestigationModal /\ ~showEvidenceModal

\* what Date.now() can return: the wall clock does not run backwards
Now == clock..Min(clock + 1, MaxTime)

---------------------------------------------------------------------------
(* The setDb updaters of the repository operations *)

createInvestigationUpdate(prev, id, now, data) ==
    LET inv == Spread([id |-> id, createdAt |-> now, updatedAt |-> now], data)
    IN  [prev EXCEPT !.investigations = <<inv>> \o prev.investigations]

\* { ...data, ...i, updatedAt: now }: the stored fields win over the submitted ones
updateInvestigationUpdate_keepOld(prev, id, now, data) ==
    [prev EXCEPT !.investigations =
        Map(prev.investigations,
            LAMBDA i : IF i.id = id
                       THEN Spread(Spread(data, i), [updatedAt |-> now])
                       ELSE i)]

updateInvestigationUpdate(prev, id, now, data) ==
    [prev EXCEPT !.investigations =
        Map(prev.investigations,
            LAMBDA i : IF i.id = id
                       THEN Spread(Spread(i, data), [updatedAt |-> now])
                       ELSE i)]

\* the evidence filter compares the evidence's own id
deleteInvestigationUpdate_ownId(prev, id) ==
    [prev EXCEPT !.investigations = Filter(prev.investigations, LAMBDA i : i.id # id),
                 !.evidence = Filter(prev.evidence, LAMBDA e : e.id # id)]

deleteInvestigationUpdate(prev, id) ==
    [prev EXCEPT !.investigations = Filter(prev.investigations, LAMBDA i : i.id # id),
                 !.evidence = Filter(prev.evidence, LAMBDA e : e.investigationId # id)]

\* the new Evidence takes its parent's id as its own
createEvidenceUpdate_parentId(prev, id, invId, now, data) ==
    LET ev == Spread([id |-> invId, investigationId |-> invId, createdAt |-> now,
                      updatedAt |-> now, entries |-> <<>>], data)
    IN  [prev EXCEPT !.evidence = <<ev>> \o prev.evidence]

createEvidenceUpdate(prev, id, invId, now, data) ==
    LET ev == Spread([id |-> id, investigationId |-> invId, createdAt |-> now,
                      updatedAt |-> now, entries |-> <<>>], data)
    IN  [prev EXCEPT !.evidence = <<ev>> \o prev.evidence]

\* the edit writes an empty thread, as createEvidence does
updateEvidenceUpdate_resetEntries(prev, id, now, data) ==
    [prev EXCEPT !.evidence =
        Map(prev.evidence,
            LAMBDA e : IF e.id = id
                       THEN Spread(Spread(e, data), [entries |-> <<>>, updatedAt |-> now])
                       ELSE e)]

\* createdAt is refreshed where updatedAt should be
updateEvidenceUpdate_createdAt(prev, id, now, data) ==
    [prev EXCEPT !.evidence =
        Map(prev.evidence,
            LAMBDA e : IF e.id = id
                       THEN Spread(Spread(e, data), [createdAt |-> now])
                       ELSE e)]

updateEvidenceUpdate(prev, id, now, data) ==
    [prev EXCEPT !.evidence =
        Map(prev.evidence,
            LAMBDA e : IF e.id = id
                       THEN Spread(Spread(e, data), [updatedAt |-> now])
                       ELSE e)]

deleteEvidenceUpdate(prev, id) ==
    [prev EXCEPT !.evidence = Filter(prev.evidence, LAMBDA e : e.id # id)]

\* e.entries || []
EntriesOf(e) == IF Has(e, "entries") THEN e.entries ELSE <<>>

\* the new entry is appended
addEntryUpdate_append(prev, id, evidenceId, now, data) ==
    LET entry == Spread([id |-> id, timestamp |-> now], data)
    IN  [prev EXCEPT !.evidence =
            Map(prev.evidence,
                LAMBDA e : IF e.id = evidenceId
                           THEN Spread(e, [entries |-> EntriesOf(e) \o <<entry>>,
                                           updatedAt |-> now])
                           ELSE e)]

addEntryUpdate(prev, id, evidenceId, now, data) ==
    LET entry == Spread([id |-> id, timestamp |-> now], data)
    IN  [prev EXCEPT !.evidence =
            Map(prev.evidence,
                LAMBDA e : IF e.id = evidenceId
                           THEN Spread(e, [entries |-> <<entry>> \o EntriesOf(e),
                                           updatedAt |-> now])
                           ELSE e)]

---------------------------------------------------------------------------
(* The repository operations (lines 336-400): each is the whole handler,   *)
(* the re-render's useEffect(() => saveDB(db), [db]) included              *)

createInvestigation(data) ==
    /\ nextId < MaxId
    /\ \E now \in Now :
        /\ clock' = now
        /\ db' = createInvestigationUpdate(db, nextId + 1, now, data)
    /\ nextId' = nextId + 1
    /\ slot' = saveDB(db')
    /\ showInvestigationModal' = FALSE
    /\ editingInvestigation' = Null
    /\ selected' = nextId + 1
    /\ UNCHANGED <<views, activeEvidence, showEvidenceModal, editingEvidence,
                   reading, reads, lastAlert>>

updateInvestigation(id, data) ==
    /\ \E now \in Now :
        /\ clock' = now
        /\ db' = updateInvestigationUpdate(db, id, now, data)
    /\ slot' = saveDB(db')
    /\ showInvestigationModal' = FALSE
    /\ editingInvestigation' = Null
    /\ UNCHANGED <<views, selected, activeEvidence, showEvidenceModal, editingEvidence,
                   reading, reads, lastAlert, nextId>>

\* confirmed is what confirm() returned
deleteInvestigation(id, confirmed) ==
    IF ~confirmed
    THEN UNCHANGED vars
    ELSE /\ db' = deleteInvestigationUpdate(db, id)
         /\ slot' = saveDB(db')
         /\ selected' = IF selected = id THEN Null ELSE selected
         /\ activeEvidence' =
                IF activeEvidence # Null
                   /\ Exists(evidence, LAMBDA e : e.investigationId = id)
                THEN Null ELSE activeEvidence
         /\ UNCHANGED <<views, showInvestigationModal, editingInvestigation, showEvidenceModal,
                        editingEvidence, reading, reads, lastAlert, clock, nextId>>

createEvidence(invId, data) ==
    /\ nextId < MaxId
    /\ \E now \in Now :
        /\ clock' = now
        /\ db' = createEvidenceUpdate(db, nextId + 1, invId, now, data)
    /\ nextId' = nextId + 1
    /\ slot' = saveDB(db')
    /\ showEvidenceModal' = FALSE
    /\ editingEvidence' = Null
    /\ activeEvidence' = nextId + 1
    /\ UNCHANGED <<views, selected, showInvestigationModal, editingInvestigation,
                   reading, reads, lastAlert>>

updateEvidence(id, data) ==
    /\ \E now \in Now :
        /\ clock' = now
        /\ db' = updateEvidenceUpdate(db, id, now, data)
    /\ slot' = saveDB(db')
    /\ showEvidenceModal' = FALSE
    /\ editingEvidence' = Null
    /\ UNCHANGED <<views, selected, activeEvidence, showInvestigationModal, editingInvestigation,
                   reading, reads, lastAlert, nextId>>

deleteEvidence(id, confirmed) ==
    IF ~confirmed
    THEN UNCHANGED vars
    ELSE /\ db' = deleteEvidenceUpdate(db, id)
         /\ slot' = saveDB(db')
         /\ activeEvidence' = IF activeEvidence = id THEN Null ELSE activeEvidence
         /\ UNCHANGED <<views, selected, showInvestigationModal, editingInvestigation,
                        showEvidenceModal, editingEvidence, reading, reads,
                        lastAlert, clock, nextId>>

addEntry(evidenceId, data) ==
    /\ nextId < MaxId
    /\ \E now \in Now :
        /\ clock' = now
        /\ db' = addEntryUpdate(db, nextId + 1, evidenceId, now, data)
    /\ nextId' = nextId + 1
    /\ slot' = saveDB(db')
    /\ UNCHANGED <<views, ui, reading, reads, lastAlert>>

---------------------------------------------------------------------------
(* Export and import (lines 402-410, 459-473) *)

\* only the two record arrays are written, the other keys of db are dropped
exportJSON_arraysOnly(d) ==
    Stringify([investigations |-> d.investigations, evidence |-> d.evidence])

\* the text exportJSON puts in the downloaded file (indentation aside)
exportJSON(d) == Stringify(d)

ImportOK == "Import successful. Data replaced."

\* what reader.onload alerts for a file content
importAlert(text) ==
    IF text = Garbage THEN "Import failed: SyntaxError"
    ELSE IF text.k \notin {"obj", "arr"} THEN "Import failed: Invalid file"
    ELSE IF ~IsArrayMember(text, "investigations") \/ ~IsArrayMember(text, "evidence")
         THEN "Import failed: Missing keys"
    ELSE ImportOK

\* a failed import falls back to the empty Database, as loadDB does
importResult_reset(prev, text) ==
    IF importAlert(text) = ImportOK THEN ParseDb(text) ELSE EmptyDB

\* setDb((prev) => ({ ...prev, ...imported })): what the file lacks survives
importResult_merge(prev, text) ==
    IF importAlert(text) = ImportOK THEN Spread(prev, ParseDb(text)) ELSE prev

\* the Database after reader.onload has run on a file content
importResult(prev, text) ==
    IF importAlert(text) = ImportOK THEN ParseDb(text) ELSE prev

\* importJSON(file): reader.readAsText(file) starts the read
importJSON(text) ==
    /\ reads < MaxReads
    /\ text \notin reading
    /\ reading' = reading \cup {text}
    /\ reads' = reads + 1
    /\ UNCHANGED <<views, db, slot, ui, lastAlert, clock, nextId>>

\* reader.onload for a read that has completed
readerOnload(text) ==
    /\ text \in reading
    /\ reading' = reading \ {text}
    /\ lastAlert' = importAlert(text)
    /\ db' = importResult(db, text)
    /\ slot' = IF importAlert(text) = ImportOK THEN saveDB(db') ELSE slot
    /\ UNCHANGED <<views, ui, reads, clock, nextId>>

---------------------------------------------------------------------------
(* The events of the page *)

\* "+ New Investigation" (line 513)
OpenNewInvestigation ==
    /\ NoModal
    /\ editingInvestigation' = Null
    /\ showInvestigationModal' = TRUE
    /\ UNCHANGED <<views, db, slot, selected, activeEvidence, showEvidenceModal, editingEvidence,
                   reading, reads, lastAlert, clock, nextId, query, statusFilter, csv>>

\* "Edit" on the selected investigation (line 556)
OpenEditInvestigation ==
    /\ NoModal
    /\ HasSelectedInvestigation
    /\ editingInvestigation' = selected
    /\ showInvestigationModal' = TRUE
    /\ UNCHANGED <<views, db, slot, selected, activeEvidence, showEvidenceModal, editingEvidence,
                   reading, reads, lastAlert, clock, nextId, query, statusFilter, csv>>

\* the investigation Modal's onClose (line 642)
CloseInvestigationModal ==
    /\ showInvestigationModal
    /\ showInvestigationModal' = FALSE
    /\ editingInvestigation' = Null
    /\ UNCHANGED <<views, db, slot, selected, activeEvidence, showEvidenceModal, editingEvidence,
                   reading, reads, lastAlert, clock, nextId, query, statusFilter, csv>>

\* InvestigationForm's onSubmit (lines 648-650)
SubmitInvestigationForm ==
    /\ showInvestigationModal
    /\ \E payload \in InvestigationPayloads :
        IF editingInvestigation # Null
        THEN updateInvestigation(editingInvestigation, payload)
        ELSE createInvestigation(payload)

\* a click on a row of the investigation list (line 521)
SelectInvestigation ==
    /\ NoModal
    /\ \E n \in DOMAIN investigations :
        /\ selected' = investigations[n].id
        /\ activeEvidence' = Null
    /\ UNCHANGED <<views, db, slot, showInvestigationModal, editingInvestigation,
                   showEvidenceModal, editingEvidence, reading, reads, lastAlert,
                   clock, nextId>>

\* "Delete" on the selected investigation (line 557)
ClickDeleteInvestigation ==
    /\ NoModal
    /\ HasSelectedInvestigation
    /\ \E confirmed \in BOOLEAN : deleteInvestigation(selected, confirmed)

\* "+ New Evidence" (line 565)
OpenNewEvidence ==
    /\ NoModal
    /\ HasSelectedInvestigation
    /\ editingEvidence' = Null
    /\ showEvidenceModal' = TRUE
    /\ UNCHANGED <<views, db, slot, selected, activeEvidence, showInvestigationModal,
                   editingInvestigation, reading, reads, lastAlert, clock, nextId>>

\* the evidence the page shows: the selected investigation's cards and the focused one
ShownEvidence ==
    Range(Map(evidenceForSelected, LAMBDA e : e.id))
        \cup (IF HasActiveEvidenceObj THEN {activeEvidence} ELSE {})

\* "Edit" on an evidence card or on the focused evidence (lines 578, 595)
OpenEditEvidence ==
    /\ NoModal
    /\ HasSelectedInvestigation
    /\ \E id \in ShownEvidence : editingEvidence' = id
    /\ showEvidenceModal' = TRUE
    /\ UNCHANGED <<views, db, slot, selected, activeEvidence, showInvestigationModal,
                   editingInvestigation, reading, reads, lastAlert, clock, nextId>>

\* the evidence Modal's onClose (line 657)
CloseEvidenceModal ==
    /\ showEvidenceModal
    /\ showEvidenceModal' = FALSE
    /\ editingEvidence' = Null
    /\ UNCHANGED <<views, db, slot, selected, activeEvidence, showInvestigationModal,
                   editingInvestigation, reading, reads, lastAlert, clock, nextId>>

\* EvidenceForm's onSubmit (line 662)
SubmitEvidenceForm ==
    /\ showEvidenceModal
    /\ \E payload \in EvidencePayloads :
        IF editingEvidence # Null
        THEN updateEvidence(editingEvidence, payload)
        ELSE createEvidence(selected, payload)

\* a click on an evidence card (line 569)
FocusEvidence ==
    /\ NoModal
    /\ HasSelectedInvestigation
    /\ \E n \in DOMAIN evidenceForSelected : activeEvidence' = evidenceForSelected[n].id
    /\ UNCHANGED <<views, db, slot, selected, showInvestigationModal, editingInvestigation,
                   showEvidenceModal, editingEvidence, reading, reads, lastAlert,
                   clock, nextId>>

\* "Delete" on an evidence card or on the focused evidence (lines 579, 596)
ClickDeleteEvidence ==
    /\ NoModal
    /\ HasSelectedInvestigation
    /\ \E id \in ShownEvidence, confirmed \in BOOLEAN : deleteEvidence(id, confirmed)

\* EntryForm's onSubmit on the focused evidence (line 603)
SubmitEntryForm ==
    /\ NoModal
    /\ HasSelectedInvestigation
    /\ HasActiveEvidenceObj
    /\ \E payload \in EntryPayloads : addEntry(activeEvidence, payload)

\* the file input's onChange (line 489): the user picks a file of theirs
ChooseImportFile ==
    /\ NoModal
    /\ \E text \in Files : importJSON(text)

\* "Export JSON" (line 492), and the downloaded file picked for import
ExportThenChooseImportFile ==
    /\ NoModal
    /\ importJSON(exportJSON(db))

\* the FileReader finishes a read
ReaderOnload ==
    \E text \in reading : readerOnload(text)

---------------------------------------------------------------------------
(* The page is opened: useState(loadDB()), first render, first saveDB *)

Init ==
    /\ \E raw \in InitialSlots :
        /\ db = loadDB(raw)
        /\ slot = saveDB(loadDB(raw))
    /\ selected = Null
    /\ activeEvidence = Null
    /\ showInvestigationModal = FALSE
    /\ editingInvestigation = Null
    /\ showEvidenceModal = FALSE
    /\ editingEvidence = Null
    /\ reading = {}
    /\ reads = 0
    /\ lastAlert = "none"
    /\ clock = 1
    /\ nextId = 0
    /\ query = <<>>
    /\ statusFilter = "All"
    /\ csv = <<>>

Next ==
    \/ OpenNewInvestigation
    \/ OpenEditInvestigation
    \/ CloseInvestigationModal
    \/ SubmitInvestigationForm
    \/ SelectInvestigation
    \/ ClickDeleteInvestigation
    \/ OpenNewEvidence
    \/ OpenEditEvidence
    \/ CloseEvidenceModal
    \/ SubmitEvidenceForm
    \/ FocusEvidence
    \/ ClickDeleteEvidence
    \/ SubmitEntryForm
    \/ ChooseImportFile
    \/ ExportThenChooseImportFile
    \/ ReaderOnload

Spec == Init /\ [][Next]_vars

\* the repository operations alone: nothing is imported
NextRepo ==
    \/ OpenNewInvestigation
    \/ OpenEditInvestigation
    \/ CloseInvestigationModal
    \/ SubmitInvestigationForm
    \/ SelectInvestigation
    \/ ClickDeleteInvestigation
    \/ OpenNewEvidence
    \/ OpenEditEvidence
    \/ CloseEvidenceModal
    \/ SubmitEvidenceForm
    \/ FocusEvidence
    \/ ClickDeleteEvidence
    \/ SubmitEntryForm

SpecRepo == Init /\ [][NextRepo]_vars

---------------------------------------------------------------------------
(* The page is opened on a slot other pages or earlier versions have written *)

StoredInvestigations ==
    { [id |-> 1, title |-> "Robbery", status |-> "Open", createdAt |-> 1, updatedAt |-> 2,
       tags |-> <<"narcotics">>],
      [id |-> 2, title |-> "Arson", status |-> "Closed", createdAt |-> 1],
      [id |-> 3, title |-> "Fraud", caseNumber |-> "24-017", description |-> "",
       status |-> "On Hold", createdAt |-> 2, updatedAt |-> 2, tags |-> <<>>] }

StoredEvidence ==
    { [id |-> 4, investigationId |-> 1, title |-> "CCTV", type |-> "Digital",
       summary |-> "lobby", tags |-> <<"CCTV">>, createdAt |-> 1, updatedAt |-> 2,
       entries |-> <<[id |-> 5, timestamp |-> 2, author |-> "Deputy", body |-> "seen",
                      attachments |-> <<>>]>>],
      [id |-> 6, investigationId |-> 9, title |-> "Knife", createdAt |-> 1] }

RECURSIVE ArraysOfLength(_, _)
ArraysOfLength(S, n) ==
    IF n = 0 THEN {<<>>}
    ELSE {Append(arr, a) : arr \in ArraysOfLength(S, n - 1), a \in S}

\* the arrays of at most n elements of S
ArraysUpTo(S, n) == UNION {ArraysOfLength(S, k) : k \in 0..n}

StoredDatabases ==
    { [investigations |-> is, evidence |-> es] :
        is \in ArraysUpTo(StoredInvestigations, MaxStored),
        es \in ArraysUpTo(StoredEvidence, MaxStored) }
    \cup { [investigations |-> is, evidence |-> es, version |-> 1] :
        is \in ArraysUpTo(StoredInvestigations, MaxStored),
        es \in ArraysUpTo(StoredEvidence, MaxStored) }

OnlyInvestigationsDoc == JObj(<< <<"investigations", JArr(<<>>)>> >>)

\* what localStorage.getItem(STORAGE_KEY) can return
SlotContents ==
    {Absent, EmptyText, Garbage}
    \cup {Stringify(d) : d \in StoredDatabases}
    \cup {BackupDoc}
    \cup {JNull, JNum(42), JStr("backup"), JArr(<<>>), JObj(<<>>),
          NotAnArrayDoc, OnlyInvestigationsDoc}

\* useState(loadDB()), before the first render
InitLoad ==
    /\ slot \in SlotContents
    /\ db = loadDB(slot)
    /\ selected = Null
    /\ activeEvidence = Null
    /\ showInvestigationModal = FALSE
    /\ editingInvestigation = Null
    /\ showEvidenceModal = FALSE
    /\ editingEvidence = Null
    /\ reading = {}
    /\ reads = 0
    /\ lastAlert = "none"
    /\ clock = 1
    /\ nextId = 0
    /\ query = <<>>
    /\ statusFilter = "All"
    /\ csv = <<>>

\* the first render and its effect saveDB(db); reading db.investigations of a
\* value that has none throws, and nothing is rendered or saved
FirstRender ==
    /\ IsDatabase(db)
    /\ slot' = saveDB(db)
    /\ UNCHANGED <<views, db, ui, reading, reads, lastAlert, clock, nextId>>

NextLoad == FirstRender

SpecLoad == InitLoad /\ [][NextLoad]_vars

---------------------------------------------------------------------------
(* The investigation list: search box and status filter (lines 304-305,     *)
(* 322-334, 502-512).  Text that is searched is a sequence of characters;   *)
(* text that is only compared stays a string.                               *)

UpperCase == <<"A", "B", "C", "D", "E", "F", "G", "H", "I", "J", "K", "L", "M",
               "N", "O", "P", "Q", "R", "S", "T", "U", "V", "W", "X", "Y", "Z">>

LowerCase == <<"a", "b", "c", "d", "e", "f", "g", "h", "i", "j", "k", "l", "m",
               "n", "o", "p", "q", "r", "s", "t", "u", "v", "w", "x", "y", "z">>

toLowerCaseChar(c) ==
    IF \E n \in DOMAIN UpperCase : UpperCase[n] = c
    THEN LowerCase[CHOOSE n \in DOMAIN UpperCase : UpperCase[n] = c]
    ELSE c

\* String.prototype.toLowerCase
toLowerCase(str) == [n \in DOMAIN str |-> toLowerCaseChar(str[n])]

\* String.prototype.includes
includes(str, q) ==
    \E from \in 0..(Len(str) - Len(q)) : SubSeq(str, from + 1, from + Len(q)) = q

\* [i.title, i.caseNumber, i.description, ...(i.tags || [])].filter(Boolean)
searchedFields(i) ==
    Filter(<<"title", "caseNumber", "description">>,
           LAMBDA key : Has(i, key) /\ i[key] # <<>>)

searchedTags(i) ==
    IF Has(i, "tags") THEN Filter(i.tags, LAMBDA t : t # <<>>) ELSE <<>>

\* the second .filter of filteredInvestigations, q = query.toLowerCase()
matchesQuery(i, q) ==
    IF q = <<>> THEN TRUE
    ELSE \/ Exists(searchedFields(i), LAMBDA key : includes(toLowerCase(i[key]), q))
         \/ Exists(searchedTags(i), LAMBDA t : includes(toLowerCase(t), q))

\* the first .filter of filteredInvestigations
matchesStatus(i, filter) ==
    IF filter = "All" THEN TRUE ELSE Has(i, "status") /\ i.status = filter

\* a.updatedAt || a.createdAt
updatedOrCreated(a) ==
    IF Has(a, "updatedAt") /\ a.updatedAt # 0 THEN a.updatedAt ELSE a.createdAt

\* the comparator of the .sort: (b.updatedAt || b.createdAt) - (a.updatedAt || a.createdAt)
compareInvestigations(a, b) == updatedOrCreated(b) - updatedOrCreated(a)

\* Array.prototype.sort with that comparator: stable, a goes after every b
\* the comparator puts first
RECURSIVE sortInvestigations(_)
sortInvestigations(arr) ==
    IF arr = <<>> THEN <<>>
    ELSE LET a == Head(arr)
             rest == sortInvestigations(Tail(arr))
             before == Cardinality({n \in DOMAIN rest : compareInvestigations(a, rest[n]) > 0})
         IN  SubSeq(rest, 1, before) \o <<a>> \o SubSeq(rest, before + 1, Len(rest))

\* the fields are searched as they are, not lower-cased
filteredInvestigations_caseSensitive ==
    sortInvestigations(
        Filter(Filter(investigations, LAMBDA i : matchesStatus(i, statusFilter)),
               LAMBDA i : \/ toLowerCase(query) = <<>>
                          \/ Exists(searchedFields(i),
                                    LAMBDA key : includes(i[key], toLowerCase(query)))
                          \/ Exists(searchedTags(i),
                                    LAMBDA t : includes(t, toLowerCase(query)))))

\* useMemo(() => investigations.filter(..).filter(..).sort(..), [investigations, statusFilter, query])
filteredInvestigations ==
    sortInvestigations(
        Filter(Filter(investigations, LAMBDA i : matchesStatus(i, statusFilter)),
               LAMBDA i : matchesQuery(i, toLowerCase(query))))

\* the Investigations the list is computed from
ListedInvestigations ==
    { [id |-> 1, title |-> <<"A", "b">>, caseNumber |-> <<>>, description |-> <<>>,
       status |-> "Open", tags |-> <<>>, createdAt |-> 1, updatedAt |-> 1],
      [id |-> 2, title |-> <<"c">>, caseNumber |-> <<>>, description |-> <<"a", "b">>,
       status |-> "Closed", tags |-> << <<"B", "a">> >>, createdAt |-> 1, updatedAt |-> 2],
      [id |-> 3, title |-> <<"b", "a">>, status |-> "Open", createdAt |-> 2],
      [id |-> 4, title |-> <<"c">>, caseNumber |-> <<"A", "B">>, description |-> <<>>,
       status |-> "Open", tags |-> << <<>>, <<"b">> >>, createdAt |-> 1, updatedAt |-> 3] }

\* db.investigations: no id twice
ListedSequences ==
    { invs \in ArraysUpTo(ListedInvestigations, MaxListed) :
        \A m, n \in DOMAIN invs : m # n => invs[m].id # invs[n].id }

Queries == { <<>>, <<"a">>, <<"A">>, <<"a", "b">>, <<"A", "B">>, <<"b", "A">>, <<"x">> }

StatusFilters == {"All", "Open", "Active", "On Hold", "Closed"}

InitFilter ==
    /\ \E invs \in ListedSequences :
          /\ db = [investigations |-> invs, evidence |-> <<>>, version |-> 1]
    /\ slot = saveDB(db)
    /\ selected = Null
    /\ activeEvidence = Null
    /\ showInvestigationModal = FALSE
    /\ editingInvestigation = Null
    /\ showEvidenceModal = FALSE
    /\ editingEvidence = Null
    /\ reading = {}
    /\ reads = 0
    /\ lastAlert = "none"
    /\ clock = 1
    /\ nextId = 0
    /\ query = <<>>
    /\ statusFilter = "All"
    /\ csv = <<>>

\* the search box: onChange={(e) => setQuery(e.target.value)}
TypeQuery ==
    /\ NoModal
    /\ query' \in Queries \ {query}
    /\ UNCHANGED <<db, slot, ui, reading, reads, lastAlert, clock, nextId, statusFilter, csv>>

\* the Clear button: setQuery("")
ClearQuery ==
    /\ NoModal
    /\ query' = <<>>
    /\ UNCHANGED <<db, slot, ui, reading, reads, lastAlert, clock, nextId, statusFilter, csv>>

\* the status select: onChange={(e) => setStatusFilter(e.target.value)}
ChooseStatusFilter ==
    /\ NoModal
    /\ statusFilter' \in StatusFilters \ {statusFilter}
    /\ UNCHANGED <<db, slot, ui, reading, reads, lastAlert, clock, nextId, query, csv>>

NextFilter ==
    \/ TypeQuery
    \/ ClearQuery
    \/ ChooseStatusFilter

SpecFilter == InitFilter /\ [][NextFilter]_vars

---------------------------------------------------------------------------
(* Export CSV (lines 72-77, 412-457).  Every text is a sequence of          *)
(* characters here, the exported file too.                                  *)

\* caseNumber, investigationTitle, investigationStatus, investigationTags,
\* evidenceTitle, evidenceType, evidenceTags, entryTimestamp, entryAuthor,
\* entryBody, attachments
csvHeader ==
   << <<"c", "a", "s", "e", "N", "u", "m", "b", "e", "r">>,
      <<"i", "n", "v", "e", "s", "t", "i", "g", "a", "t", "i", "o", "n", "T", "i", "t", "l", "e">>,
      <<"i", "n", "v", "e", "s", "t", "i", "g", "a", "t", "i", "o", "n", "S", "t", "a", "t", "u", "s">>,
      <<"i", "n", "v", "e", "s", "t", "i", "g", "a", "t", "i", "o", "n", "T", "a", "g", "s">>,
      <<"e", "v", "i", "d", "e", "n", "c", "e", "T", "i", "t", "l", "e">>,
      <<"e", "v", "i", "d", "e", "n", "c", "e", "T", "y", "p", "e">>,
      <<"e", "v", "i", "d", "e", "n", "c", "e", "T", "a", "g", "s">>,
      <<"e", "n", "t", "r", "y", "T", "i", "m", "e", "s", "t", "a", "m", "p">>,
      <<"e", "n", "t", "r", "y", "A", "u", "t", "h", "o", "r">>,
      <<"e", "n", "t", "r", "y", "B", "o", "d", "y">>,
      <<"a", "t", "t", "a", "c", "h", "m", "e", "n", "t", "s">> >>

RECURSIVE join(_, _)
\* Array.prototype.join
join(parts, separator) ==
    IF parts = <<>> THEN <<>>
    ELSE IF Len(parts) = 1 THEN parts[1]
    ELSE parts[1] \o separator \o join(Tail(parts), separator)

\* the commas and line breaks are written as they are, only quotes are doubled
csvSafe_neverQuotes(str) ==
    join(Map(str, LAMBDA c : IF c = "\"" THEN <<c, c>> ELSE <<c>>), <<>>)

\* csvSafe(s) of a string: quotes doubled, and the whole in quotes when it
\* holds a quote, a comma or a line break
csvSafe(str) ==
    LET needsQuotes == \E n \in DOMAIN str : str[n] \in {"\"", ",", "\n"}
        out == join(Map(str, LAMBDA c : IF c = "\"" THEN <<c, c>> ELSE <<c>>), <<>>)
    IN  IF needsQuotes THEN <<"\"">> \o out \o <<"\"">> ELSE out

\* obj?.key || fallback, where an object that was not found has no keys
orElse(obj, key, fallback) ==
    IF Has(obj, key) /\ obj[key] # <<>> THEN obj[key] ELSE fallback

\* obj?.key || []
orEmptyArray(obj, key) == IF Has(obj, key) THEN obj[key] ELSE <<>>

\* db.investigations.find((i) => i.id === ev.investigationId)
findInvestigation(d, ev) ==
    LET found == Filter(d.investigations,
                        LAMBDA i : Has(ev, "investigationId") /\ i.id = ev.investigationId)
    IN  IF found = <<>> THEN <<>> ELSE found[1]

Digits == <<"0", "1", "2", "3", "4", "5", "6", "7", "8", "9">>

\* new Date(ms).toISOString(), for a time within the first second of 1970
toISOString(ms) ==
    <<"1", "9", "7", "0", "-", "0", "1", "-", "0", "1", "T",
      "0", "0", ":", "0", "0", ":", "0", "0", ".">>
    \o <<Digits[((ms \div 100) % 10) + 1], Digits[((ms \div 10) % 10) + 1],
         Digits[(ms % 10) + 1]>>
    \o <<"Z">>

\* `${a.label || "link"}:${a.url}`
attachmentText(a) == orElse(a, "label", <<"l", "i", "n", "k">>) \o <<":">> \o a.url

\* the row rows.push adds for the entry en of the evidence ev
csvRow(d, ev, en) ==
    LET inv == findInvestigation(d, ev)
    IN  << orElse(inv, "caseNumber", <<>>),
           orElse(inv, "title", <<>>),
           orElse(inv, "status", <<>>),
           join(orEmptyArray(inv, "tags"), <<";">>),
           orElse(ev, "title", <<>>),
           orElse(ev, "type", <<>>),
           join(orEmptyArray(ev, "tags"), <<";">>),
           toISOString(en.timestamp),
           orElse(en, "author", <<>>),
           orElse(en, "body", <<>>),
           join(Map(orEmptyArray(en, "attachments"), attachmentText), <<" ", "|", " ">>) >>

RECURSIVE csvRows(_, _)
\* db.evidence.forEach((ev) => (ev.entries || []).forEach((en) => rows.push(..)))
csvRows(d, evs) ==
    IF evs = <<>> THEN <<>>
    ELSE Map(EntriesOf(Head(evs)), LAMBDA en : csvRow(d, Head(evs), en))
         \o csvRows(d, Tail(evs))

\* the text exportCSV puts in the file: rows.map((r) => r.map(csvSafe).join(",")).join("\n")
exportCSV(d) ==
    join(Map(<<csvHeader>> \o csvRows(d, d.evidence),
             LAMBDA r : join(Map(r, csvSafe), <<",">>)),
         <<"\n">>)

ExportedInvestigations ==
    { [id |-> 1, title |-> <<"a", ",", "b">>, caseNumber |-> <<"7">>, description |-> <<>>,
       status |-> <<"O", "p", "e", "n">>, tags |-> << <<"x">>, <<"y">> >>,
       createdAt |-> 1, updatedAt |-> 1],
      [id |-> 2, title |-> <<"c">>, createdAt |-> 1] }

ExportedEntries ==
    << [id |-> 5, timestamp |-> 12, author |-> <<"D">>, body |-> <<"x", "\n", "\"", "y", "\"">>,
        attachments |-> << [label |-> <<"u">>, url |-> <<"u">>], [url |-> <<"v">>] >>],
       [id |-> 6, timestamp |-> 345, body |-> <<"p", ",", "q">>] >>

ExportedEvidence ==
    { [id |-> 3, investigationId |-> 1, title |-> <<"k">>, type |-> <<"D">>, summary |-> <<>>,
       tags |-> << <<"t">> >>, createdAt |-> 1, updatedAt |-> 1, entries |-> <<>>],
      [id |-> 4, investigationId |-> 2, title |-> <<"m">>, createdAt |-> 1],
      [id |-> 7, investigationId |-> 1, title |-> <<"n", "\"">>, type |-> <<"D">>,
       summary |-> <<>>, tags |-> <<>>, createdAt |-> 1, updatedAt |-> 1,
       entries |-> SubSeq(ExportedEntries, 1, 1)],
      [id |-> 8, investigationId |-> 9, title |-> <<"o">>, type |-> <<"P">>,
       summary |-> <<>>, tags |-> << <<"s">>, <<"t">> >>, createdAt |-> 1, updatedAt |-> 1,
       entries |-> ExportedEntries] }

\* the Databases exportCSV is called on
ExportedDatabases ==
    { [investigations |-> is, evidence |-> es, version |-> 1] :
        is \in ArraysUpTo(ExportedInvestigations, MaxStored),
        es \in ArraysUpTo(ExportedEvidence, MaxStored) }

InitCsv ==
    /\ db \in ExportedDatabases
    /\ slot = saveDB(db)
    /\ selected = Null
    /\ activeEvidence = Null
    /\ showInvestigationModal = FALSE
    /\ editingInvestigation = Null
    /\ showEvidenceModal = FALSE
    /\ editingEvidence = Null
    /\ reading = {}
    /\ reads = 0
    /\ lastAlert = "none"
    /\ clock = 1
    /\ nextId = 0
    /\ query = <<>>
    /\ statusFilter = "All"
    /\ csv = <<>>

\* the "Export CSV" button
ClickExportCSV ==
    /\ NoModal
    /\ csv' = exportCSV(db)
    /\ UNCHANGED <<db, slot, ui, reading, reads, lastAlert, clock, nextId, query, statusFilter>>

NextCsv == ClickExportCSV

SpecCsv == InitCsv /\ [][NextCsv]_vars

---------------------------------------------------------------------------
(* Claims *)

IdOf(r) == r.id

\* C1: a confirmed deleteInvestigation(I.id) leaves no Investigation with I's id and
\* no Evidence whose investigationId is I's id; the other Investigations and the
\* Evidence of other Investigations are all still there, unchanged and in the same
\* order, and nothing else of the Database changes.
C1_DeleteCascade ==
    [][\A n \in DOMAIN investigations :
          LET id == investigations[n].id IN
          deleteInvestigation(id, TRUE) =>
              /\ ~Exists(db'.investigations, LAMBDA i : i.id = id)
              /\ ~Exists(db'.evidence, LAMBDA e : e.investigationId = id)
              /\ db'.investigations = Filter(db.investigations, LAMBDA i : i.id # id)
              /\ db'.evidence = Filter(db.evidence, LAMBDA e : e.investigationId # id)
              /\ DOMAIN db' = DOMAIN db
              /\ \A key \in DOMAIN db \ {"investigations", "evidence"} : db'[key] = db[key]
      ]_vars

\* an investigation was deleted (the selection was cleared after records had been
\* created) and an Investigation and an Evidence of another parent are still there
C1_Witness ==
    /\ selected = Null
    /\ nextId = MaxId
    /\ Len(investigations) = 1
    /\ Len(evidence) = 1
    /\ evidence[1].investigationId = investigations[1].id

\* C2: every Evidence in the Database has the id of an Investigation in the
\* Database as its investigationId.
C2_NoOrphans ==
    \A n \in DOMAIN evidence :
        Exists(investigations, LAMBDA i : i.id = evidence[n].investigationId)

\* C3: when the read of a file completes whose content does not parse, is no object,
\* or has no investigations or evidence array, the user is alerted of the failure and
\* the Database and the storage slot stay as they were.
C3_InvalidImportKeepsDb ==
    [][\A text \in reading :
          (readerOnload(text) /\ text \in InvalidFiles) =>
              /\ lastAlert' \in {"Import failed: SyntaxError", "Import failed: Invalid file",
                                 "Import failed: Missing keys"}
              /\ db' = db
              /\ slot' = slot
      ]_vars

\* the import of {"investigations": "not-an-array", "evidence": []} has failed on a
\* Database that holds records
C3_Witness ==
    /\ lastAlert = "Import failed: Missing keys"
    /\ reading = {}
    /\ Len(investigations) > 0
    /\ Len(evidence) > 0

\* C4: for the Database of every reachable state, importing the text exportJSON
\* writes for it succeeds and gives a Database equal to it: the same keys (version
\* included), the same investigations and evidence in the same order, the same entries.
C4_ExportImportRoundTrip ==
    /\ importAlert(exportJSON(db)) = ImportOK
    /\ importResult(EmptyDB, exportJSON(db)) = db

\* an exported file has been imported (the hand-written file has no version) and the
\* Database holds an Evidence with an Entry
C4_Witness ==
    /\ lastAlert = ImportOK
    /\ Has(db, "version")
    /\ Exists(evidence, LAMBDA e : Len(EntriesOf(e)) > 0)
    /\ Len(investigations) > 0

\* an Evidence that is in the Database before and after the step has its previous
\* Entries, unchanged and in the same order, as the tail of its entries
EntriesKept ==
    \A n \in DOMAIN evidence, m \in DOMAIN db'.evidence :
        evidence[n].id = db'.evidence[m].id =>
            LET old == EntriesOf(evidence[n])
                new == EntriesOf(db'.evidence[m])
            IN  /\ Len(new) >= Len(old)
                /\ SubSeq(new, Len(new) - Len(old) + 1, Len(new)) = old

C6_UpdateInvestigation ==
    [][\A n \in DOMAIN investigations, F \in InvestigationPayloads :
          updateInvestigation(investigations[n].id, F) =>
              /\ Len(db'.investigations) = Len(investigations)
              /\ db'.evidence = evidence
              /\ \A m \in DOMAIN investigations :
                    LET old == investigations[m]
                        new == db'.investigations[m]
                    IN  IF old.id = investigations[n].id
                        THEN /\ \A key \in DOMAIN F : new[key] = F[key]
                             /\ new.updatedAt = clock'
                             /\ Has(old, "updatedAt") => new.updatedAt >= old.updatedAt
                             /\ new.id = old.id
                             /\ new.createdAt = old.createdAt
                             /\ DOMAIN new = DOMAIN old \cup DOMAIN F \cup {"updatedAt"}
                        ELSE new = old
      ]_vars

\* an Investigation has been updated after its creation and is now Closed
C6_Witness ==
    \E n \in DOMAIN investigations :
        /\ investigations[n].id # 101
        /\ investigations[n].status = "Closed"
        /\ investigations[n].updatedAt > investigations[n].createdAt
        /\ Len(evidence) > 0

\* C7: every Investigation and every Evidence has updatedAt >= createdAt, after any
\* sequence of create, update, delete and addEntry.
C7_UpdatedNotBeforeCreated ==
    /\ \A n \in DOMAIN investigations :
          investigations[n].updatedAt >= investigations[n].createdAt
    /\ \A n \in DOMAIN evidence :
          evidence[n].updatedAt >= evidence[n].createdAt

\* an Investigation and an Evidence have both been changed after they were created
C7_Witness ==
    /\ \E n \in DOMAIN investigations :
          investigations[n].updatedAt > investigations[n].createdAt
    /\ \E n \in DOMAIN evidence :
          evidence[n].updatedAt > evidence[n].createdAt

C9_SlotIsCurrent == slot = Stringify(db)

\* a Database with an Evidence and an Entry is in the slot after a successful import
C9_Witness ==
    /\ lastAlert = ImportOK
    /\ Exists(evidence, LAMBDA e : Len(EntriesOf(e)) > 0)
    /\ slot = Stringify(db)
    /\ slot # Stringify(EmptyDB)

IdsOf(records) == Map(records, IdOf)

RECURSIVE EntryIds(_)
EntryIds(evs) ==
    IF Len(evs) = 0 THEN <<>>
    ELSE IdsOf(EntriesOf(Head(evs))) \o EntryIds(Tail(evs))

\* the ids of the records of a Database: Investigations, Evidence, Entries
RecordIds(d) == IdsOf(d.investigations) \o IdsOf(d.evidence) \o EntryIds(d.evidence)

Distinct(s) == \A a, b \in DOMAIN s : a # b => s[a] # s[b]

\* the ids db' holds and db does not were never given out before: uuid() has
\* given out 1..nextId so far
NoIdReused == \A id \in Range(RecordIds(db')) \ Range(RecordIds(db)) : id > nextId

\* C10 as stated: in every state no two records share an id, and no step, an import
\* included, brings back an id that was given out earlier.
C10_IdsUniqueNeverReused == [][Distinct(RecordIds(db')) /\ NoIdReused]_vars

\* C10 amended: as long as no import has been started, no two records share an id
\* and no step of create, update, delete and addEntry brings back an id that was
\* given out earlier.
C10_IdsUniqueWithoutImport ==
    [][reads' = 0 => (Distinct(RecordIds(db')) /\ NoIdReused)]_vars

\* without any import, records were created after the first one was deleted
C10_Witness ==
    /\ reads = 0
    /\ nextId = MaxId
    /\ 1 \notin Range(RecordIds(db))
    /\ Len(RecordIds(db)) >= 2


\* C11: whatever the storage slot holds when the page is opened, loadDB
\* returns a Database (a value with investigations and evidence arrays), and
\* it returns the empty Database when the slot is absent, empty or not
\* parsable.
C11_LoadReturnsDatabase ==
    /\ IsDatabase(db)
    /\ slot \in {Absent, EmptyText, Garbage} => db = EmptyDB


\* C14: when the read of a file with valid content completes, the Database
\* becomes the document of the file exactly, whatever repository operations
\* ran since importJSON started the read (their edits are gone unless the
\* document holds them), and the storage slot holds that same Database.
C14_ImportReplacesWhole ==
    [][\A text \in reading \ reading' :
          importAlert(text) = ImportOK =>
              /\ db' = ParseDb(text)
              /\ \A id \in Range(RecordIds(db')) : id \in Range(RecordIds(ParseDb(text)))
              /\ loadDB(slot') = ParseDb(text)]_vars

\* an export was chosen for import, an Investigation was created (and
\* selected) while the file was being read, and the completed import has
\* dropped it: the selection names an Investigation the Database lacks
C14_Witness ==
    /\ lastAlert = ImportOK
    /\ reading = {}
    /\ Has(db, "version")
    /\ selected # Null
    /\ ~HasSelectedInvestigation
    /\ nextId >= selected


\* C15: without import, an Evidence focus names an Evidence of the Database
\* whose investigationId is the selected Investigation, and a selection names
\* an Investigation of the Database.
C15_FocusConsistent ==
    /\ activeEvidence # Null =>
           Exists(evidence, LAMBDA e : e.id = activeEvidence /\ e.investigationId = selected)
    /\ selected # Null => HasSelectedInvestigation


\* the same letter in either case
SameLetter(a, b) ==
    \/ a = b
    \/ \E n \in DOMAIN UpperCase : {a, b} = {UpperCase[n], LowerCase[n]}

ContainsIgnoringCase(text, q) ==
    \E from \in 0..(Len(text) - Len(q)) :
        \A n \in 1..Len(q) : SameLetter(text[from + n], q[n])

TextsOf(i) ==
    {i[key] : key \in {"title", "caseNumber", "description"} \cap DOMAIN i}
    \cup (IF Has(i, "tags") THEN Range(i.tags) ELSE {})

PassesFilters(i) ==
    /\ statusFilter = "All" \/ (Has(i, "status") /\ i.status = statusFilter)
    /\ query = <<>> \/ \E text \in TextsOf(i) : ContainsIgnoringCase(text, query)

NewestKey(i) == IF Has(i, "updatedAt") THEN i.updatedAt ELSE i.createdAt

\* C12: the filtered list holds exactly the Investigations whose status is the
\* status filter (or the filter is "All") and of which the title, caseNumber,
\* description or a tag contains the query ignoring case (or the query is
\* empty); it is in descending order of updatedAt (createdAt where updatedAt
\* is absent); and recomputing it leaves db.investigations as it was.
C12_FilteredList ==
    /\ [](/\ Range(filteredInvestigations) = {i \in Range(investigations) : PassesFilters(i)}
          /\ Len(filteredInvestigations) = Len(Filter(investigations, PassesFilters))
          /\ \A m, n \in DOMAIN filteredInvestigations :
                m < n => NewestKey(filteredInvestigations[m]) >= NewestKey(filteredInvestigations[n]))
    /\ [][(query' # query \/ statusFilter' # statusFilter) =>
              db'.investigations = db.investigations]_vars

\* both filters are set, the query matches in another case than typed, the
\* list drops an Investigation and shows the others in another order than
\* the Database holds them
C12_Witness ==
    /\ statusFilter # "All"
    /\ query # <<>>
    /\ query # toLowerCase(query)
    /\ Len(filteredInvestigations) >= 2
    /\ Len(filteredInvestigations) < Len(investigations)
    /\ filteredInvestigations # Filter(investigations, PassesFilters)
    /\ \E i \in Range(filteredInvestigations) : ~Has(i, "updatedAt")


\* a position of a CSV text is inside a quoted field when an odd number of
\* quotes precedes it (a quote inside a field is written twice)
InQuotes(text, n) == Cardinality({m \in 1..(n - 1) : text[m] = "\""}) % 2 = 1

\* the k-th smallest element of a set of numbers
Nth(S, k) == CHOOSE p \in S : Cardinality({q \in S : q < p}) = k - 1

\* the pieces of text between the positions in cuts
Pieces(text, cuts) ==
    [k \in 1..(Cardinality(cuts) + 1) |->
        SubSeq(text,
               (IF k = 1 THEN 0 ELSE Nth(cuts, k - 1)) + 1,
               (IF k > Cardinality(cuts) THEN Len(text) + 1 ELSE Nth(cuts, k)) - 1)]

SplitOutsideQuotes(text, separator) ==
    Pieces(text, {n \in DOMAIN text : text[n] = separator /\ ~InQuotes(text, n)})

\* the content of a field: as written, or, for a field in quotes, what is
\* between the quotes with every doubled quote read as one
Unquoted(field) ==
    IF field = <<>> \/ field[1] # "\"" THEN field
    ELSE LET inner == SubSeq(field, 2, Len(field) - 1)
             kept == {n \in DOMAIN inner : inner[n] # "\"" \/ InQuotes(inner, n)}
         IN  [k \in 1..Cardinality(kept) |-> inner[Nth(kept, k)]]

\* the records a CSV reader finds in text: records end at a line break and
\* fields at a comma, unless inside quotes
CsvRecords(text) ==
    Map(SplitOutsideQuotes(text, "\n"),
        LAMBDA line : Map(SplitOutsideQuotes(line, ","), Unquoted))

RECURSIVE EntryCount(_)
EntryCount(evs) ==
    IF evs = <<>> THEN 0
    ELSE (IF Has(Head(evs), "entries") THEN Len(Head(evs).entries) ELSE 0)
         + EntryCount(Tail(evs))

RECURSIVE EntriesWithEvidence(_)
\* every Entry of the Database with the Evidence that holds it
EntriesWithEvidence(evs) ==
    IF evs = <<>> THEN <<>>
    ELSE (IF Has(Head(evs), "entries")
          THEN [n \in DOMAIN Head(evs).entries |->
                   [ev |-> Head(evs), en |-> Head(evs).entries[n]]]
          ELSE <<>>)
         \o EntriesWithEvidence(Tail(evs))

IsOrphan(ev) == ~\E i \in Range(investigations) : i.id = ev.investigationId

TextOr(obj, key) == IF Has(obj, key) THEN obj[key] ELSE <<>>

\* C13: the file exportCSV writes has the header record and then exactly one
\* record per Entry of the Database, in the order of the Evidence and their
\* entries: as many data records as the entries of all Evidence together,
\* each with the Entry's author and body and its Evidence's title, and with
\* four empty investigation fields when the Evidence's investigationId is
\* the id of no Investigation.
C13_OneRowPerEntry ==
    csv # <<>> =>
        LET records == CsvRecords(csv)
            entries == EntriesWithEvidence(evidence)
        IN  /\ records[1] = csvHeader
            /\ Len(records) = 1 + EntryCount(evidence)
            /\ Len(entries) = EntryCount(evidence)
            /\ \A n \in DOMAIN entries :
                  /\ Len(records[n + 1]) = Len(csvHeader)
                  /\ records[n + 1][5] = TextOr(entries[n].ev, "title")
                  /\ records[n + 1][9] = TextOr(entries[n].en, "author")
                  /\ records[n + 1][10] = TextOr(entries[n].en, "body")
                  /\ IsOrphan(entries[n].ev) =>
                        \A column \in 1..4 : records[n + 1][column] = <<>>

\* a file was exported from a Database that holds an Investigation without
\* Evidence, an Evidence without entries, and an Evidence with two entries
\* whose investigationId names no Investigation; a body holds a line break
C13_Witness ==
    /\ csv # <<>>
    /\ \E i \in Range(investigations) : ~\E e \in Range(evidence) : e.investigationId = i.id
    /\ \E e \in Range(evidence) : EntriesOf(e) = <<>>
    /\ \E e \in Range(evidence) :
          /\ IsOrphan(e)
          /\ Len(EntriesOf(e)) = 2
          /\ \E n \in DOMAIN e.entries : \E c \in DOMAIN e.entries[n].body :
                e.entries[n].body[c] = "\n"
    /\ EntryCount(evidence) = 2

=============================================================================
